---- MODULE Spec2Model ----
(***************************************************************************)
(* Rotomind: the trade builder store, the trade-analysis mutation, the     *)
(* HTTP client, the UI store with its persistence and the command palette, *)
(* the formatting and search helpers, and the computational core behind    *)
(* the REST endpoints (Z-score normalisation, roto ranking, trade impact). *)
(*                                                                         *)
(* The front end (store, hook, client, components) follows the TypeScript  *)
(* sources.  The Python core (stats.py, roto.py, analyzer.py) and its REST *)
(* endpoint follow the written specification; their definitions are        *)
(* marked "Core" and "REST layer" in the comments.                         *)
(***************************************************************************)
EXTENDS Integers, Sequences, FiniteSets, TLC

(***************************************************************************)
(* Bounds of the model.                                                    *)
(***************************************************************************)
\* players of the league are 1..NumPlayers
NumPlayers == 2
\* cap on the analysis requests that are in flight at once
MaxPending == 2

\* teamAId / teamBId before a team is chosen (null)
NoTeam == 0

Players == 1..NumPlayers
\* the league has two fantasy teams; a player is rostered on exactly one
Teams == {1, 2}

VARIABLES
    \* ---- useTradeStore
    teamAId, teamAPlayers, playersToSend,
    teamBId, teamBPlayers, playersToReceive,
    result, isAnalyzing,
    \* ---- analysis requests in flight (one HTTP exchange per mutation)
    pending,
    \* ---- how the most recently settled mutation ended
    lastSettled,
    \* ---- how many of the requests in flight, the oldest ones, were issued
    \* ---- before the most recent clearTrade or swapTeams
    issuedBefore,
    \* ---- one request-scoped computation of the core: the call and its return
    call, returned,
    \* ---- useUIStore
    theme, sidebarCollapsed, commandPaletteOpen, activeLeagueId,
    \* ---- the localStorage item "rotomind-ui"
    storage,
    \* ---- the commandPaletteOpen the registered keydown listener closes over
    listenerOpen,
    \* ---- the most recent press of K with Meta or Ctrl: the palette before and after
    lastKey

storeVars == <<teamAId, teamAPlayers, playersToSend,
               teamBId, teamBPlayers, playersToReceive, result, isAnalyzing>>
uiVars == <<theme, sidebarCollapsed, commandPaletteOpen, activeLeagueId, storage,
            listenerOpen, lastKey>>
vars == <<teamAId, teamAPlayers, playersToSend,
          teamBId, teamBPlayers, playersToReceive, result, isAnalyzing,
          pending, lastSettled, issuedBefore, call, returned, uiVars>>
\* everything outside the trade builder
restVars == <<call, returned, uiVars>>

(***************************************************************************)
(* Helpers on arrays.                                                      *)
(***************************************************************************)
Range(s) == {s[i] : i \in 1..Len(s)}

\* Array.prototype.find(p => p.id === id) is truthy
Finds(s, id) == \E i \in 1..Len(s) : s[i] = id

RECURSIVE SumOver(_, _)
SumOver(S, f) ==
    IF S = {} THEN 0
    ELSE LET x == CHOOSE y \in S : TRUE IN f[x] + SumOver(S \ {x}, f)

\* no computation of the core under way
NoCall == [op |-> "none"]

\* ascending array of the members of a set of player ids
RECURSIVE SeqOf(_)
SeqOf(S) ==
    IF S = {} THEN <<>>
    ELSE LET m == CHOOSE x \in S : \A y \in S : x <= y IN <<m>> \o SeqOf(S \ {m})

(***************************************************************************)
(* League data served by the back end: rosters and Z-score totals (in      *)
(* tenths, so 50 is a Z-total of 5.0).                                     *)
(***************************************************************************)
RosterOf(t) == SeqOf({p \in Players : p % 2 = t % 2})

\* PlayerStats.z_total of the current stat lines: Player X = 1, Player Y = 2
ZTotal == [p \in Players |-> CASE p = 1 -> 50 [] p = 2 -> 30 [] OTHER -> 20 - 10 * p]

(***************************************************************************)
(* Core: RotoStandingsEngine.analyzeTrade.                                 *)
(***************************************************************************)
\* aggregate Z-score total of a roster
TeamTotal(roster, statLines) == SumOver(roster, statLines)

\* playersToB must come from teamA, playersToA from teamB
ValidComposition(teamA, teamB, playersToB, playersToA) ==
    playersToB \subseteq teamA /\ playersToA \subseteq teamB

\* the impact computed without adding the players that come in
TradeImpactDroppingIncoming(roster, out, in, statLines) ==
    LET before == TeamTotal(roster, statLines)
        after  == TeamTotal(roster \ out, statLines)
    IN  [before |-> before, after |-> after, diff |-> after - before]

\* before / after / diff of one team that gives `out` and gets `in`
TradeImpact(roster, out, in, statLines) ==
    LET before == TeamTotal(roster, statLines)
        after  == TeamTotal((roster \ out) \cup in, statLines)
    IN  [before |-> before, after |-> after, diff |-> after - before]

AnalyzeTrade(teamA, teamB, playersToB, playersToA, statLines) ==
    IF ~ValidComposition(teamA, teamB, playersToB, playersToA)
    THEN [failure |-> "InvalidTradeComposition"]
    ELSE [team_a |-> TradeImpact(teamA, playersToB, playersToA, statLines),
          team_b |-> TradeImpact(teamB, playersToA, playersToB, statLines)]

Failed(r) == "failure" \in DOMAIN r

(***************************************************************************)
(* Core: StatsNormalizer.normalize, for one counting category (PTS).  A    *)
(* Z-score (x - mean) / stddev over n values with sum S is                 *)
(* (n*x - S) / sqrt(n*SUM(x^2) - S^2); it is kept exactly, as the pair     *)
(* num = n*x - S, den2 = n*SUM(x^2) - S^2, standing for num / sqrt(den2).  *)
(***************************************************************************)
RECURSIVE SeqSum(_)
SeqSum(s) == IF s = <<>> THEN 0 ELSE Head(s) + SeqSum(Tail(s))

Squares(s) == [i \in 1..Len(s) |-> s[i] * s[i]]

\* a stat line carries the category or is malformed
HasCategory(line) == "PTS" \in DOMAIN line

\* n^2 times the population variance of the values
ScaledVariance(values) ==
    Len(values) * SeqSum(Squares(values)) - SeqSum(values) * SeqSum(values)

\* Z = 0, the value substituted in a zero-variance category
ZeroZ == [num |-> 0, den2 |-> 1]

\* normalize without the zero-variance case: the division fails
NormalizeDividing(population) ==
    IF population = <<>> \/ \E i \in 1..Len(population) : ~HasCategory(population[i])
    THEN [failure |-> "InvalidPopulation"]
    ELSE LET values == [i \in 1..Len(population) |-> population[i].PTS]
         IN  IF ScaledVariance(values) = 0
             THEN [failure |-> "ZeroDivisionError"]
             ELSE [zscores |-> [i \in 1..Len(values) |->
                                   [num  |-> Len(values) * values[i] - SeqSum(values),
                                    den2 |-> ScaledVariance(values)]]]

\* normalize dividing by the sample deviation (n - 1) in place of the population's
NormalizeSampleDeviation(population) ==
    IF population = <<>> \/ \E i \in 1..Len(population) : ~HasCategory(population[i])
    THEN [failure |-> "InvalidPopulation"]
    ELSE LET values == [i \in 1..Len(population) |-> population[i].PTS]
             n == Len(values)
         IN  [zscores |-> [i \in 1..n |->
                 IF ScaledVariance(values) = 0 THEN ZeroZ
                 ELSE [num  |-> (n - 1) * (n * values[i] - SeqSum(values)),
                       den2 |-> n * (n - 1) * ScaledVariance(values)]]]

Normalize(population) ==
    IF population = <<>> \/ \E i \in 1..Len(population) : ~HasCategory(population[i])
    THEN [failure |-> "InvalidPopulation"]
    ELSE LET values == [i \in 1..Len(population) |-> population[i].PTS]
         IN  [zscores |-> [i \in 1..Len(values) |->
                 IF ScaledVariance(values) = 0 THEN ZeroZ
                 ELSE [num  |-> Len(values) * values[i] - SeqSum(values),
                       den2 |-> ScaledVariance(values)]]]

(***************************************************************************)
(* Core: StatsNormalizer.normalize, for one percentage category (FG%).  A  *)
(* stat line carries the makes FGM and the attempts FGA.  With M and A the *)
(* makes and the attempts of the whole population, the league average      *)
(* percentage is M / A and a player's impact value is                      *)
(* makes - attempts * M / A.  The impact values are kept exactly, times A: *)
(* A * makes - attempts * M; a Z-score does not change when every value is *)
(* scaled by the same positive factor.                                     *)
(***************************************************************************)
\* a stat line carries the makes and the attempts of the category or is malformed
HasShots(line) == "FGM" \in DOMAIN line /\ "FGA" \in DOMAIN line

Makes(population) == [i \in 1..Len(population) |-> population[i].FGM]
Attempts(population) == [i \in 1..Len(population) |-> population[i].FGA]

RECURSIVE SeqProduct(_)
SeqProduct(s) == IF s = <<>> THEN 1 ELSE Head(s) * SeqProduct(Tail(s))

\* the impact values of the population, each times the population's attempts
ImpactValues(population) ==
    [i \in 1..Len(population) |->
        SeqSum(Attempts(population)) * population[i].FGM
        - population[i].FGA * SeqSum(Makes(population))]

\* the raw percentages makes / attempts, each times the product of all attempts
RawPercentages(population) ==
    [i \in 1..Len(population) |->
        population[i].FGM * (SeqProduct(Attempts(population)) \div population[i].FGA)]

\* the Z-scores of a sequence of values, zero in a zero-variance category
ZScores(values) ==
    [i \in 1..Len(values) |->
        IF ScaledVariance(values) = 0 THEN ZeroZ
        ELSE [num  |-> Len(values) * values[i] - SeqSum(values),
              den2 |-> ScaledVariance(values)]]

\* normalize taking the Z-scores of the raw percentages
NormalizePercentageRaw(population) ==
    IF population = <<>> \/ \E i \in 1..Len(population) : ~HasShots(population[i])
    THEN [failure |-> "InvalidPopulation"]
    ELSE [zscores |-> ZScores(RawPercentages(population))]

NormalizePercentage(population) ==
    IF population = <<>> \/ \E i \in 1..Len(population) : ~HasShots(population[i])
    THEN [failure |-> "InvalidPopulation"]
    ELSE [zscores |-> ZScores(ImpactValues(population))]

(***************************************************************************)
(* Core: RotoStandingsEngine.computeStandings, the ranks of one category.  *)
(* Teams are ordered by total, best first, and a team takes the place of   *)
(* the first team of the order that has its total.                         *)
(***************************************************************************)
\* insert v into a sequence ordered from high to low
RECURSIVE InsertDescending(_, _)
InsertDescending(sorted, v) ==
    IF sorted = <<>> THEN <<v>>
    ELSE IF v >= Head(sorted) THEN <<v>> \o sorted
         ELSE <<Head(sorted)>> \o InsertDescending(Tail(sorted), v)

RECURSIVE SortDescending(_)
SortDescending(s) ==
    IF s = <<>> THEN <<>> ELSE InsertDescending(SortDescending(Tail(s)), Head(s))

\* place (from 1) of the first element equal to v
FirstPlace(sorted, v) == CHOOSE k \in 1..Len(sorted) :
    sorted[k] = v /\ \A j \in 1..(k - 1) : sorted[j] # v

\* place (from 1) of the last element equal to v
LastPlace(sorted, v) == CHOOSE k \in 1..Len(sorted) :
    sorted[k] = v /\ \A j \in (k + 1)..Len(sorted) : sorted[j] # v

\* ranking in which tied teams take the worst of their places
CategoryRanksWorstPlace(totals) ==
    [i \in 1..Len(totals) |-> LastPlace(SortDescending(totals), totals[i])]

CategoryRanks(totals) ==
    [i \in 1..Len(totals) |-> FirstPlace(SortDescending(totals), totals[i])]

(***************************************************************************)
(* REST layer: POST /analyze/trade.  A rejected request is answered with   *)
(* a non-ok status whose JSON body carries the failure as `detail`.        *)
(***************************************************************************)
\* TradeRequest -> fetch Response
AnalyzeTradeEndpoint(request) ==
    LET r == AnalyzeTrade(Range(request.team_a_roster), Range(request.team_b_roster),
                          Range(request.players_to_b), Range(request.players_to_a),
                          ZTotal)
    IN  IF Failed(r)
        THEN [ok |-> FALSE, status |-> 400, json |-> TRUE, body |-> [detail |-> r.failure]]
        ELSE [ok |-> TRUE, status |-> 200, json |-> TRUE, body |-> r]

\* fetch() itself rejecting (no connection): no Response at all
NetworkFailure == [network |-> "failed"]
IsNetworkFailure(o) == "network" \in DOMAIN o

(***************************************************************************)
(* lib/api/client.ts                                                       *)
(***************************************************************************)
\* the JSON value null
JsonNull == [null |-> TRUE]

\* what `error.detail` throws when the body of a non-ok response parses to null
NullBodyError ==
    [name |-> "TypeError", message |-> "Cannot read properties of null (reading 'detail')"]
\* what fetch throws without a connection
FetchError == [name |-> "TypeError", message |-> "Failed to fetch"]
\* what response.json() throws on a body that is not JSON
JsonError == [name |-> "SyntaxError", message |-> "Unexpected token"]

\* `await response.json().catch(() => ({}))`
ErrorBody(response) == IF response.json THEN response.body ELSE [empty |-> TRUE]

\* `error.detail || "Request failed"`
ErrorMessage(error) ==
    IF "detail" \in DOMAIN error /\ error.detail # "" THEN error.detail ELSE "Request failed"

ApiError(status, message, data) ==
    [name |-> "ApiError", status |-> status, message |-> message, data |-> data]

\* api.post without the `if (!response.ok)` branch
ApiPostIgnoringStatus(outcome) ==
    IF IsNetworkFailure(outcome)
    THEN [kind |-> "reject", error |-> [name |-> "TypeError", message |-> "Failed to fetch"]]
    ELSE [kind |-> "resolve", data |-> outcome.body]

\* `if (!response.ok) { ... throw new ApiError(...) }`: what is thrown
Thrown(response) ==
    IF ErrorBody(response) = JsonNull THEN NullBodyError
    ELSE ApiError(response.status, ErrorMessage(ErrorBody(response)), ErrorBody(response))

\* `return response.json()`
ParsedBody(response) ==
    IF response.json THEN [kind |-> "resolve", data |-> response.body]
    ELSE [kind |-> "reject", error |-> JsonError]

\* api.post: the settled promise for one outcome of fetch
ApiPost(outcome) ==
    IF IsNetworkFailure(outcome) THEN [kind |-> "reject", error |-> FetchError]
    ELSE IF ~outcome.ok THEN [kind |-> "reject", error |-> Thrown(outcome)]
    ELSE ParsedBody(outcome)

\* api.get
ApiGet(outcome) ==
    IF IsNetworkFailure(outcome) THEN [kind |-> "reject", error |-> FetchError]
    ELSE IF ~outcome.ok THEN [kind |-> "reject", error |-> Thrown(outcome)]
    ELSE ParsedBody(outcome)

\* api.put
ApiPut(outcome) ==
    IF IsNetworkFailure(outcome) THEN [kind |-> "reject", error |-> FetchError]
    ELSE IF ~outcome.ok THEN [kind |-> "reject", error |-> Thrown(outcome)]
    ELSE ParsedBody(outcome)

\* api.delete
ApiDelete(outcome) ==
    IF IsNetworkFailure(outcome) THEN [kind |-> "reject", error |-> FetchError]
    ELSE IF ~outcome.ok THEN [kind |-> "reject", error |-> Thrown(outcome)]
    ELSE ParsedBody(outcome)

(***************************************************************************)
(* lib/utils/format.ts                                                     *)
(***************************************************************************)
\* a % b of JavaScript: the remainder takes the sign of the dividend
JsRemainder(a, b) == IF a >= 0 THEN a % b ELSE -((-a) % b)

\* s[i] of a JavaScript array, "" standing for undefined (which is as falsy)
ArrayAt(s, i) == IF i \in 0..(Len(s) - 1) THEN s[i + 1] ELSE ""

\* a || b on strings
OrElse(a, b) == IF a # "" THEN a ELSE b

\* const s = ["th", "st", "nd", "rd"]
OrdinalSuffixes == <<"th", "st", "nd", "rd">>

\* formatOrdinal indexing with the mathematical modulo, which is never negative
FormatOrdinalFloorMod(n) ==
    LET v == n % 100
    IN  [number |-> n,
         suffix |-> OrElse(ArrayAt(OrdinalSuffixes, (v - 20) % 10),
                           OrElse(ArrayAt(OrdinalSuffixes, v), ArrayAt(OrdinalSuffixes, 0)))]

\* formatOrdinal(n): the decimal digits of n followed by the suffix
FormatOrdinal(n) ==
    LET v == JsRemainder(n, 100)
    IN  [number |-> n,
         suffix |-> OrElse(ArrayAt(OrdinalSuffixes, JsRemainder(v - 20, 10)),
                           OrElse(ArrayAt(OrdinalSuffixes, v), ArrayAt(OrdinalSuffixes, 0)))]

\* 10^d
RECURSIVE PowerOfTen(_)
PowerOfTen(d) == IF d = 0 THEN 1 ELSE 10 * PowerOfTen(d - 1)

\* |x|
Abs(x) == IF x < 0 THEN -x ELSE x

\* x.toFixed(d) for x = num / den >= 0: the integer n with n / 10^d nearest
\* to x, the larger one of two that are as near; printed with d decimals
ToFixed(num, den, d) == (2 * num * PowerOfTen(d) + den) \div (2 * den)

\* `decimals = 1`: an optional argument is a sequence of at most one value
DecimalsOr(decimals) == IF decimals = <<>> THEN 1 ELSE decimals[1]

\* formatZScore without the "+" of a positive value
FormatZScoreUnsigned(value, decimals) ==
    [sign |-> IF value.num < 0 THEN "-" ELSE "",
     digits |-> ToFixed(Abs(value.num), value.den, DecimalsOr(decimals)),
     decimals |-> DecimalsOr(decimals)]

\* formatZScore(value, decimals) for value = num / den: the sign, then
\* Math.abs(value).toFixed(decimals) as `digits` / 10^decimals
FormatZScore(value, decimals) ==
    [sign |-> IF value.num > 0 THEN "+" ELSE IF value.num < 0 THEN "-" ELSE "",
     digits |-> ToFixed(Abs(value.num), value.den, DecimalsOr(decimals)),
     decimals |-> DecimalsOr(decimals)]

(***************************************************************************)
(* lib/api/players.ts                                                      *)
(***************************************************************************)
\* the letters toLowerCase changes, with what it changes them to
LowerCased == [A |-> "a", B |-> "b", L |-> "l", O |-> "o"]

\* toLowerCase on a string, a string being the sequence of its characters
ToLowerCase(str) ==
    [i \in 1..Len(str) |-> IF str[i] \in DOMAIN LowerCased THEN LowerCased[str[i]] ELSE str[i]]

\* str.includes(part)
Includes(str, part) ==
    \E k \in 0..(Len(str) - Len(part)) : SubSeq(str, k + 1, k + Len(part)) = part

\* array.filter(keep), keep given as the set of the elements to keep
RECURSIVE Filter(_, _)
Filter(array, keep) ==
    IF array = <<>> THEN <<>>
    ELSE IF Head(array) \in keep THEN <<Head(array)>> \o Filter(Tail(array), keep)
         ELSE Filter(Tail(array), keep)

\* array.slice(0, end) for end >= 0
SliceFromStart(array, end) == SubSeq(array, 1, IF end < Len(array) THEN end ELSE Len(array))

\* `limit = 10`
DefaultLimit == 10
LimitOr(limit) == IF limit = <<>> THEN DefaultLimit ELSE limit[1]

\* searchPlayers that cuts the fetched players to the limit before it filters
SearchPlayersSlicingFirst(players, query, limit) ==
    Filter(SliceFromStart(players, LimitOr(limit)),
           {p \in Range(players) : Includes(ToLowerCase(p.full_name), ToLowerCase(query))})

\* playersApi.searchPlayers(query, limit), `players` being what getPlayers resolved with
SearchPlayers(players, query, limit) ==
    SliceFromStart(
        Filter(players,
               {p \in Range(players) : Includes(ToLowerCase(p.full_name), ToLowerCase(query))}),
        LimitOr(limit))

(***************************************************************************)
(* lib/stores/ui-store.ts: useUIStore, created through zustand's persist   *)
(* middleware.  Every `set` of the store writes partialize(state) to the   *)
(* localStorage item "rotomind-ui"; creating the store reads the item and  *)
(* merges what it holds over the initial state.                            *)
(***************************************************************************)
\* activeLeagueId: null
NoLeague == 0
Leagues == {1}
Themes == {"dark", "light"}

\* no key pressed yet; a press that found the palette `before` and left it `after`
NoKey == [pressed |-> FALSE]
KeyPress(before, after) == [pressed |-> TRUE, before |-> before, after |-> after]

\* the item is absent from localStorage
NoItem == [absent |-> TRUE]
Item(state) == [state |-> state, version |-> 0]
Stored(item) == IF "state" \in DOMAIN item THEN item.state ELSE <<>>

\* the state the store's creator returns
UIDefaults ==
    [theme |-> "dark", sidebarCollapsed |-> FALSE,
     commandPaletteOpen |-> FALSE, activeLeagueId |-> NoLeague]

\* the state of the store
UIState ==
    [theme |-> theme, sidebarCollapsed |-> sidebarCollapsed,
     commandPaletteOpen |-> commandPaletteOpen, activeLeagueId |-> activeLeagueId]

\* { ...state, ...partial }
Merge(state, partial) ==
    [k \in DOMAIN state \cup DOMAIN partial |->
        IF k \in DOMAIN partial THEN partial[k] ELSE state[k]]

\* persist without a partialize option: the whole state is stored
PartializeEverything(state) == state

\* the partialize option
Partialize(state) ==
    [theme |-> state.theme, sidebarCollapsed |-> state.sidebarCollapsed,
     activeLeagueId |-> state.activeLeagueId]

\* the store's state becomes `next`; the components that use the store render
\* again and CommandPalette's effect registers a listener closing over the
\* new commandPaletteOpen
UIBecomes(next) ==
    /\ theme' = next.theme /\ sidebarCollapsed' = next.sidebarCollapsed
    /\ commandPaletteOpen' = next.commandPaletteOpen
    /\ activeLeagueId' = next.activeLeagueId
    /\ listenerOpen' = next.commandPaletteOpen

\* the store is created over the localStorage item: persist's rehydration
Hydrated(item) ==
    /\ theme = Merge(UIDefaults, Stored(item)).theme
    /\ sidebarCollapsed = Merge(UIDefaults, Stored(item)).sidebarCollapsed
    /\ commandPaletteOpen = Merge(UIDefaults, Stored(item)).commandPaletteOpen
    /\ activeLeagueId = Merge(UIDefaults, Stored(item)).activeLeagueId
    /\ listenerOpen = Merge(UIDefaults, Stored(item)).commandPaletteOpen
    /\ storage = item
    /\ lastKey = NoKey

\* the first visit: nothing stored yet
UIInit == Hydrated(NoItem)

\* set(partial) of the store, through persist, in the handler of the event `key`
SetUIOn(partial, key) ==
    /\ UIBecomes(Merge(UIState, partial))
    /\ storage' = Item(Partialize(Merge(UIState, partial)))
    /\ lastKey' = key
    /\ UNCHANGED <<storeVars, pending, lastSettled, issuedBefore, call, returned>>

\* set(partial) in any handler but the keydown listener
SetUI(partial) == SetUIOn(partial, lastKey)

SetTheme(t) == SetUI([theme |-> t])
ToggleTheme == SetUI([theme |-> IF theme = "dark" THEN "light" ELSE "dark"])
SetSidebarCollapsed(collapsed) == SetUI([sidebarCollapsed |-> collapsed])
ToggleSidebar == SetUI([sidebarCollapsed |-> ~sidebarCollapsed])
SetCommandPaletteOpen(open) == SetUI([commandPaletteOpen |-> open])
ToggleCommandPalette == SetUI([commandPaletteOpen |-> ~commandPaletteOpen])
SetActiveLeagueId(id) == SetUI([activeLeagueId |-> id])

(***************************************************************************)
(* components/layout: the header and the command palette                   *)
(***************************************************************************)
\* the header's "Search or command..." button
HeaderTrigger == SetCommandPaletteOpen(TRUE)

\* a keydown listener that only opens the palette
KeyDownKOpening ==
    SetUIOn([commandPaletteOpen |-> TRUE], KeyPress(commandPaletteOpen, TRUE))

\* keydown of K with Meta or Ctrl, handled by the registered listener:
\* setCommandPaletteOpen(!commandPaletteOpen) on the value it closes over
KeyDownK ==
    SetUIOn([commandPaletteOpen |-> ~listenerOpen], KeyPress(commandPaletteOpen, ~listenerOpen))

\* click on the backdrop, which is rendered while the palette is open
BackdropClick == commandPaletteOpen /\ SetCommandPaletteOpen(FALSE)

\* a command or a suggestion of the open palette is selected
HandleSelect == commandPaletteOpen /\ SetCommandPaletteOpen(FALSE)

(***************************************************************************)
(* lib/stores/trade-store.ts                                               *)
(***************************************************************************)
\* a Player object; only its id takes part in the store's logic
Player(p) == [id |-> p]
\* players.map((p) => p.id)
Ids(players) == [i \in 1..Len(players) |-> players[i].id]
\* players.find((p) => p.id === id) is truthy
HasId(players, id) == Finds(Ids(players), id)
\* players.filter((p) => p.id !== id)
RECURSIVE WithoutId(_, _)
WithoutId(players, id) ==
    IF players = <<>> THEN <<>>
    ELSE IF Head(players).id = id THEN WithoutId(Tail(players), id)
         ELSE <<Head(players)>> \o WithoutId(Tail(players), id)

\* the players of team t as the roster endpoint returns them
TeamPlayers(t) == [i \in 1..Len(RosterOf(t)) |-> Player(RosterOf(t)[i])]

\* result: null
NullResult == [null |-> TRUE]

\* how a mutation that has not settled yet is recorded
Idle == [status |-> "idle"]

\* useTradeStore's initial state, no mutation started
TradeInit ==
    /\ teamAId = NoTeam /\ teamAPlayers = <<>> /\ playersToSend = <<>>
    /\ teamBId = NoTeam /\ teamBPlayers = <<>> /\ playersToReceive = <<>>
    /\ result = NullResult /\ isAnalyzing = FALSE
    /\ pending = <<>>
    /\ lastSettled = Idle
    /\ issuedBefore = 0

Init ==
    /\ TradeInit
    /\ call = NoCall /\ returned = NoCall
    /\ UIInit

SetTeamA(teamId, players) ==
    /\ teamAId' = teamId /\ teamAPlayers' = players
    /\ UNCHANGED <<playersToSend, teamBId, teamBPlayers, playersToReceive,
                   result, isAnalyzing, pending, lastSettled, issuedBefore, restVars>>

SetTeamB(teamId, players) ==
    /\ teamBId' = teamId /\ teamBPlayers' = players
    /\ UNCHANGED <<teamAId, teamAPlayers, playersToSend, playersToReceive,
                   result, isAnalyzing, pending, lastSettled, issuedBefore, restVars>>

AddPlayerToSend(player) ==
    /\ playersToSend' = IF HasId(playersToSend, player.id) THEN playersToSend
                        ELSE Append(playersToSend, player)
    /\ UNCHANGED <<teamAId, teamAPlayers, teamBId, teamBPlayers, playersToReceive,
                   result, isAnalyzing, pending, lastSettled, issuedBefore, restVars>>

RemovePlayerToSend(playerId) ==
    /\ playersToSend' = WithoutId(playersToSend, playerId)
    /\ UNCHANGED <<teamAId, teamAPlayers, teamBId, teamBPlayers, playersToReceive,
                   result, isAnalyzing, pending, lastSettled, issuedBefore, restVars>>

AddPlayerToReceive(player) ==
    /\ playersToReceive' = IF HasId(playersToReceive, player.id) THEN playersToReceive
                           ELSE Append(playersToReceive, player)
    /\ UNCHANGED <<teamAId, teamAPlayers, playersToSend, teamBId, teamBPlayers,
                   result, isAnalyzing, pending, lastSettled, issuedBefore, restVars>>

RemovePlayerToReceive(playerId) ==
    /\ playersToReceive' = WithoutId(playersToReceive, playerId)
    /\ UNCHANGED <<teamAId, teamAPlayers, playersToSend, teamBId, teamBPlayers,
                   result, isAnalyzing, pending, lastSettled, issuedBefore, restVars>>

\* the two setters the analysis hook uses
SetResult(r) == result' = r
SetIsAnalyzing(analyzing) == isAnalyzing' = analyzing

ClearTrade ==
    /\ playersToSend' = <<>> /\ playersToReceive' = <<>>
    /\ result' = NullResult /\ isAnalyzing' = FALSE
    /\ issuedBefore' = Len(pending)
    /\ UNCHANGED <<teamAId, teamAPlayers, teamBId, teamBPlayers,
                   pending, lastSettled, restVars>>

\* swapTeams exchanging the teams but not the two selections
SwapTeamsKeepingSelections ==
    /\ teamAId' = teamBId /\ teamAPlayers' = teamBPlayers
    /\ teamBId' = teamAId /\ teamBPlayers' = teamAPlayers
    /\ result' = NullResult
    /\ issuedBefore' = Len(pending)
    /\ UNCHANGED <<playersToSend, playersToReceive, isAnalyzing,
                   pending, lastSettled, restVars>>

SwapTeams ==
    /\ teamAId' = teamBId /\ teamAPlayers' = teamBPlayers
    /\ playersToSend' = playersToReceive
    /\ teamBId' = teamAId /\ teamBPlayers' = teamAPlayers
    /\ playersToReceive' = playersToSend
    /\ result' = NullResult
    /\ issuedBefore' = Len(pending)
    /\ UNCHANGED <<isAnalyzing, pending, lastSettled, restVars>>

(***************************************************************************)
(* TradeBuilder (trade-impact-card.tsx) and useTradeAnalysis               *)
(***************************************************************************)
\* a TradeRequest with the two directions of the trade exchanged
TradeRequestDirectionsExchanged ==
    [team_a_roster |-> Ids(teamAPlayers), team_b_roster |-> Ids(teamBPlayers),
     players_to_b  |-> Ids(playersToReceive), players_to_a  |-> Ids(playersToSend)]

\* the TradeRequest handleAnalyze builds from the store
TradeRequest ==
    [team_a_roster |-> Ids(teamAPlayers), team_b_roster |-> Ids(teamBPlayers),
     players_to_b  |-> Ids(playersToSend), players_to_a  |-> Ids(playersToReceive)]

\* the Analyze button's `disabled`
AnalyzeDisabled ==
    Len(playersToSend) = 0 \/ Len(playersToReceive) = 0 \/ isAnalyzing

\* an element of `pending`, one request in flight: whether the request sent is
\* well composed, and the Response the endpoint returns for it (the endpoint
\* is a function of the request alone)
Exchange(request) ==
    [composed |-> ValidComposition(Range(request.team_a_roster), Range(request.team_b_roster),
                                   Range(request.players_to_b), Range(request.players_to_a)),
     response |-> AnalyzeTradeEndpoint(request)]

RemoveAt(s, i) == SubSeq(s, 1, i - 1) \o SubSeq(s, i + 1, Len(s))

\* what fetch can yield for an exchange: the endpoint's Response, or a rejection
FetchOutcomes(x) == {x.response, NetworkFailure}

\* the fields of the store the hook's callbacks never pass to `set`
proposalVars == <<teamAId, teamAPlayers, playersToSend,
                  teamBId, teamBPlayers, playersToReceive>>

\* onMutate()
OnMutate == SetIsAnalyzing(TRUE) /\ UNCHANGED <<result, proposalVars>>
\* onSuccess that also carries the trade out on the stored rosters
OnSuccessApplyingTrade(data) ==
    /\ SetResult(data) /\ SetIsAnalyzing(FALSE)
    /\ teamAPlayers' = teamBPlayers /\ teamBPlayers' = teamAPlayers
    /\ playersToSend' = <<>> /\ playersToReceive' = <<>>
    /\ UNCHANGED <<teamAId, teamBId>>

\* onSuccess(result)
OnSuccess(data) == SetResult(data) /\ SetIsAnalyzing(FALSE) /\ UNCHANGED proposalVars
\* onError that also discards the stored result
OnErrorClearingResult == SetResult(NullResult) /\ SetIsAnalyzing(FALSE) /\ UNCHANGED proposalVars

\* onError()
OnError == SetIsAnalyzing(FALSE) /\ UNCHANGED <<result, proposalVars>>

\* the i-th request in flight settles: one fewer of the older requests when
\* it was one of them
Forget(i) ==
    issuedBefore' = IF i <= issuedBefore THEN issuedBefore - 1 ELSE issuedBefore

\* click on Analyze: handleAnalyze, then the mutation's onMutate and mutationFn
HandleAnalyze ==
    /\ ~AnalyzeDisabled
    /\ ~(Len(playersToSend) = 0 \/ Len(playersToReceive) = 0)
    /\ Len(pending) < MaxPending
    /\ OnMutate
    /\ pending' = Append(pending, Exchange(TradeRequest))
    /\ UNCHANGED <<lastSettled, issuedBefore, restVars>>

\* the i-th request in flight settles with api.post resolving
RequestSucceeds(i) ==
    /\ i \in 1..Len(pending)
    /\ \E o \in FetchOutcomes(pending[i]) :
          /\ ApiPost(o).kind = "resolve"
          /\ OnSuccess(ApiPost(o).data)
    /\ pending' = RemoveAt(pending, i)
    /\ lastSettled' = [status |-> "success", composed |-> pending[i].composed]
    /\ Forget(i)
    /\ UNCHANGED restVars

\* the i-th request in flight settles with api.post (or fetch) rejecting
RequestFails(i) ==
    /\ i \in 1..Len(pending)
    /\ \E o \in FetchOutcomes(pending[i]) :
          /\ ApiPost(o).kind = "reject"
          /\ OnError
          /\ lastSettled' = [status |-> "error", composed |-> pending[i].composed,
                             error |-> ApiPost(o).error]
    /\ pending' = RemoveAt(pending, i)
    /\ Forget(i)
    /\ UNCHANGED restVars

Next ==
    \/ \E t \in Teams : SetTeamA(t, TeamPlayers(t))
    \/ \E t \in Teams : SetTeamB(t, TeamPlayers(t))
    \/ \E p \in Players : AddPlayerToSend(Player(p))
    \/ \E p \in Players : RemovePlayerToSend(p)
    \/ \E p \in Players : AddPlayerToReceive(Player(p))
    \/ \E p \in Players : RemovePlayerToReceive(p)
    \/ ClearTrade
    \/ SwapTeams
    \/ HandleAnalyze
    \/ \E i \in 1..MaxPending : RequestSucceeds(i)
    \/ \E i \in 1..MaxPending : RequestFails(i)

Spec == Init /\ [][Next]_vars

\* every request in flight settles: fetch resolves or rejects in the end
SpecSettling ==
    /\ Init /\ [][Next]_vars
    /\ WF_vars(\E i \in 1..MaxPending : RequestSucceeds(i) \/ RequestFails(i))

(***************************************************************************)
(* The page with both stores, across reloads.  A reload creates the two    *)
(* stores again: useTradeStore from its initial state, useUIStore from its *)
(* initial state and the localStorage item; the requests in flight are     *)
(* dropped with the page that issued them.                                 *)
(***************************************************************************)
\* what earlier visits can have left in localStorage
StoredItems ==
    {NoItem} \cup
    {Item(Partialize(s)) : s \in [theme : Themes, sidebarCollapsed : BOOLEAN,
                                  commandPaletteOpen : BOOLEAN,
                                  activeLeagueId : Leagues \cup {NoLeague}]}

InitUI ==
    /\ TradeInit
    /\ call = NoCall /\ returned = NoCall
    /\ \E item \in StoredItems : Hydrated(item)

Reload ==
    /\ teamAId' = NoTeam /\ teamAPlayers' = <<>> /\ playersToSend' = <<>>
    /\ teamBId' = NoTeam /\ teamBPlayers' = <<>> /\ playersToReceive' = <<>>
    /\ result' = NullResult /\ isAnalyzing' = FALSE
    /\ pending' = <<>>
    /\ lastSettled' = Idle
    /\ issuedBefore' = 0
    /\ UIBecomes(Merge(UIDefaults, Stored(storage)))
    /\ lastKey' = NoKey
    /\ UNCHANGED <<storage, call, returned>>

NextUI ==
    \/ \E t \in Themes : SetTheme(t)
    \/ ToggleTheme
    \/ \E b \in BOOLEAN : SetSidebarCollapsed(b)
    \/ ToggleSidebar
    \/ \E id \in Leagues \cup {NoLeague} : SetActiveLeagueId(id)
    \/ ToggleCommandPalette
    \/ HeaderTrigger
    \/ KeyDownK
    \/ BackdropClick
    \/ HandleSelect
    \/ \E t \in Teams : SetTeamA(t, TeamPlayers(t))
    \/ \E t \in Teams : SetTeamB(t, TeamPlayers(t))
    \/ \E p \in Players : AddPlayerToSend(Player(p))
    \/ \E p \in Players : AddPlayerToReceive(Player(p))
    \/ HandleAnalyze
    \/ \E i \in 1..MaxPending : RequestSucceeds(i)
    \/ \E i \in 1..MaxPending : RequestFails(i)
    \/ Reload

SpecUI == InitUI /\ [][NextUI]_vars

(***************************************************************************)
(* The core's request-scoped computations, each on inputs of its own.      *)
(***************************************************************************)
\* cap on the stat lines of a population
MaxPopulation == 3
\* cap on the teams of a league
MaxTeams == 4

\* per-game PTS values of the stat lines
StatValues == {20, 25, 30}
\* category totals of the teams
TotalValues == {5, 8, 10}
\* Z-score totals of the players, in tenths
ZValues == {-10, 30, 50}

SeqsUpTo(S, n) == UNION {[1..k -> S] : k \in 0..n}

StatLines == {[PTS |-> v] : v \in StatValues} \cup {[games |-> 0]}

\* field-goal attempts of the stat lines
AttemptValues == {2, 4}
\* stat lines of a percentage category: makes out of attempts
ShotLines ==
    {line \in [FGM : 1..3, FGA : AttemptValues] : line.FGM <= line.FGA}
    \cup {[games |-> 0]}

Calls ==
    {[op |-> "normalize", population |-> pop] : pop \in SeqsUpTo(StatLines, MaxPopulation)}
    \cup {[op |-> "normalizePercentage", population |-> pop] :
             pop \in SeqsUpTo(ShotLines, MaxPopulation)}
    \cup {[op |-> "computeStandings", totals |-> t] : t \in SeqsUpTo(TotalValues, MaxTeams)}
    \cup {[op |-> "analyzeTrade", teamA |-> a, teamB |-> b, playersToB |-> tb,
           playersToA |-> ta, statLines |-> z] :
             a \in SUBSET Players, b \in SUBSET Players, tb \in SUBSET Players,
             ta \in SUBSET Players, z \in [Players -> ZValues]}

InitCore ==
    /\ TradeInit
    /\ call \in Calls
    /\ returned = NoCall
    /\ UIInit

NormalizeReturns ==
    /\ call.op = "normalize" /\ returned = NoCall
    /\ returned' = [op |-> "normalize", value |-> Normalize(call.population)]
    /\ UNCHANGED <<storeVars, pending, lastSettled, issuedBefore, call, uiVars>>

NormalizePercentageReturns ==
    /\ call.op = "normalizePercentage" /\ returned = NoCall
    /\ returned' = [op |-> "normalizePercentage",
                    value |-> NormalizePercentage(call.population)]
    /\ UNCHANGED <<storeVars, pending, lastSettled, issuedBefore, call, uiVars>>

ComputeStandingsReturns ==
    /\ call.op = "computeStandings" /\ returned = NoCall
    /\ returned' = [op |-> "computeStandings", value |-> CategoryRanks(call.totals)]
    /\ UNCHANGED <<storeVars, pending, lastSettled, issuedBefore, call, uiVars>>

AnalyzeTradeReturns ==
    /\ call.op = "analyzeTrade" /\ returned = NoCall
    /\ returned' = [op |-> "analyzeTrade",
                    value |-> AnalyzeTrade(call.teamA, call.teamB, call.playersToB,
                                           call.playersToA, call.statLines)]
    /\ UNCHANGED <<storeVars, pending, lastSettled, issuedBefore, call, uiVars>>

NextCore ==
    \/ NormalizeReturns
    \/ NormalizePercentageReturns
    \/ ComputeStandingsReturns
    \/ AnalyzeTradeReturns

SpecCore == InitCore /\ [][NextCore]_vars

(***************************************************************************)
(* The front end's library functions, each called on inputs of its own.    *)
(***************************************************************************)
\* HTTP statuses of the responses; Response.ok is status in 200..299
Statuses == {200, 204, 400, 422, 500}

\* bodies of the responses: JSON values, or text that is not JSON
JsonBodies ==
    {[detail |-> "Invalid trade"], [detail |-> ""], [message |-> "Internal Server Error"],
     [id |-> 1], JsonNull}
Responses ==
    {[ok |-> (st \in 200..299), status |-> st, json |-> TRUE, body |-> b] :
        st \in Statuses, b \in JsonBodies}
    \cup {[ok |-> (st \in 200..299), status |-> st, json |-> FALSE, body |-> ""] :
        st \in Statuses}

ApiMethods == {"api.get", "api.post", "api.put", "api.delete"}

\* formatOrdinal is called on 1..MaxOrdinal
MaxOrdinal == 125
\* formatZScore is called on the multiples of 1/8 from -MaxEighths/8 to MaxEighths/8,
\* which a double holds exactly
MaxEighths == 20
DecimalsValues == {0, 1, 2}
\* an optional argument: absent, or one of the values
Optional(S) == {<<>>} \cup {<<x>> : x \in S}

\* full names and queries
FullNames == {<<"A", "l">>, <<"a", "L", "a">>, <<"B", "o">>}
Queries == {<<>>, <<"a">>, <<"A", "L">>, <<"l", "a">>, <<"o", "b">>}
LimitValues == {0, 1, 2}
\* cap on the players of a short fetched list
MaxFetched == 2
\* the array getPlayers resolves with: ids in the server's order
Fetched(names) == [i \in 1..Len(names) |-> [id |-> i, full_name |-> names[i]]]
\* a list longer than the default limit
Crowd == [i \in 1..(DefaultLimit + 4) |-> IF i % 4 = 0 THEN <<"B", "o">> ELSE <<"A", "l">>]
FetchedLists == {Fetched(names) : names \in SeqsUpTo(FullNames, MaxFetched) \cup {Crowd}}

LibCalls ==
    {[op |-> m, outcome |-> o] : m \in ApiMethods, o \in Responses \cup {NetworkFailure}}
    \cup {[op |-> "formatOrdinal", n |-> n] : n \in 1..MaxOrdinal}
    \cup {[op |-> "formatZScore", value |-> [num |-> k, den |-> 8], decimals |-> d] :
             k \in (-MaxEighths)..MaxEighths, d \in Optional(DecimalsValues)}
    \cup {[op |-> "searchPlayers", players |-> ps, query |-> q, limit |-> l] :
             ps \in FetchedLists, q \in Queries, l \in Optional(LimitValues)}

InitLib ==
    /\ TradeInit
    /\ call \in LibCalls
    /\ returned = NoCall
    /\ UIInit

ApiGetSettles ==
    /\ call.op = "api.get" /\ returned = NoCall
    /\ returned' = [op |-> "api.get", value |-> ApiGet(call.outcome)]
    /\ UNCHANGED <<storeVars, pending, lastSettled, issuedBefore, call, uiVars>>

ApiPostSettles ==
    /\ call.op = "api.post" /\ returned = NoCall
    /\ returned' = [op |-> "api.post", value |-> ApiPost(call.outcome)]
    /\ UNCHANGED <<storeVars, pending, lastSettled, issuedBefore, call, uiVars>>

ApiPutSettles ==
    /\ call.op = "api.put" /\ returned = NoCall
    /\ returned' = [op |-> "api.put", value |-> ApiPut(call.outcome)]
    /\ UNCHANGED <<storeVars, pending, lastSettled, issuedBefore, call, uiVars>>

ApiDeleteSettles ==
    /\ call.op = "api.delete" /\ returned = NoCall
    /\ returned' = [op |-> "api.delete", value |-> ApiDelete(call.outcome)]
    /\ UNCHANGED <<storeVars, pending, lastSettled, issuedBefore, call, uiVars>>

FormatOrdinalReturns ==
    /\ call.op = "formatOrdinal" /\ returned = NoCall
    /\ returned' = [op |-> "formatOrdinal", value |-> FormatOrdinal(call.n)]
    /\ UNCHANGED <<storeVars, pending, lastSettled, issuedBefore, call, uiVars>>

FormatZScoreReturns ==
    /\ call.op = "formatZScore" /\ returned = NoCall
    /\ returned' = [op |-> "formatZScore", value |-> FormatZScore(call.value, call.decimals)]
    /\ UNCHANGED <<storeVars, pending, lastSettled, issuedBefore, call, uiVars>>

SearchPlayersResolves ==
    /\ call.op = "searchPlayers" /\ returned = NoCall
    /\ returned' = [op |-> "searchPlayers",
                    value |-> SearchPlayers(call.players, call.query, call.limit)]
    /\ UNCHANGED <<storeVars, pending, lastSettled, issuedBefore, call, uiVars>>

NextLib ==
    \/ ApiGetSettles
    \/ ApiPostSettles
    \/ ApiPutSettles
    \/ ApiDeleteSettles
    \/ FormatOrdinalReturns
    \/ FormatZScoreReturns
    \/ SearchPlayersResolves

SpecLib == InitLib /\ [][NextLib]_vars

(***************************************************************************)
(* Properties of the trade builder and of the analysis mutation.           *)
(***************************************************************************)
SendIds == Range(Ids(playersToSend))
ReceiveIds == Range(Ids(playersToReceive))

\* the selections lie within the rosters they are taken from
StoreComposed ==
    SendIds \subseteq Range(Ids(teamAPlayers)) /\ ReceiveIds \subseteq Range(Ids(teamBPlayers))

\* C1: an analysis never mutates the proposal. Every step of an analysis (the
\* request being issued, the request settling with success or with an error)
\* leaves teamAId, teamAPlayers, teamBId, teamBPlayers, playersToSend and
\* playersToReceive as they were; it writes only result and isAnalyzing.
C1_AnalysisLeavesProposal ==
    [][(pending' # pending) => UNCHANGED proposalVars]_vars

\* an analysis of a non-empty proposal over chosen teams has succeeded
C1_Witness ==
    /\ lastSettled.status = "success"
    /\ teamAPlayers # <<>> /\ teamBPlayers # <<>>
    /\ playersToSend # <<>> /\ playersToReceive # <<>>
    /\ result # NullResult

\* C2 as stated: every request in flight satisfies the composition
\* constraint, whatever store operations came before the click.
C2_EveryRequestComposed ==
    \A i \in 1..Len(pending) : pending[i].composed

\* a store operation that can take a selection out of its roster: choosing a
\* team, or adding a player who is not on the matching roster
C2_RosterStep ==
    \/ teamAPlayers' # teamAPlayers /\ teamBPlayers' = teamBPlayers
    \/ teamBPlayers' # teamBPlayers /\ teamAPlayers' = teamAPlayers
    \/ \E p \in Players \ Range(Ids(teamAPlayers)) : AddPlayerToSend(Player(p))
    \/ \E p \in Players \ Range(Ids(teamBPlayers)) : AddPlayerToReceive(Player(p))

\* C2 as amended: a request satisfies the composition constraint exactly when
\* the selections lie within the rosters at the click; removePlayerToSend,
\* removePlayerToReceive, swapTeams, clearTrade, the analysis itself and adding
\* a player of the matching roster keep the selections within the rosters
\* (setTeamA, setTeamB and adding any other player need not).
C2_ComposedWhenSelectedFromRosters ==
    [][/\ (Len(pending') > Len(pending)) =>
              (pending'[Len(pending')].composed <=> StoreComposed)
       /\ (StoreComposed /\ ~C2_RosterStep) => StoreComposed']_vars

\* a well-composed request is in flight, team 2 on side A and team 1 on side B
C2_Witness ==
    /\ teamAId = 2 /\ teamBId = 1
    /\ playersToSend # <<>> /\ playersToReceive # <<>>
    /\ StoreComposed
    /\ pending # <<>> /\ pending[Len(pending)].composed

\* C3: a request that sends a player who is not on the stated roster is
\* rejected. The endpoint's answer makes api.post throw an ApiError whose
\* message is InvalidTradeComposition, never a TradeResult; when the request
\* settles, result is not written and isAnalyzing is false again.
C3_InvalidCompositionRejected ==
    [][\A i \in 1..Len(pending) :
          ~pending[i].composed =>
             /\ ApiPost(pending[i].response).kind = "reject"
             /\ ApiPost(pending[i].response).error.name = "ApiError"
             /\ ApiPost(pending[i].response).error.message = "InvalidTradeComposition"
             /\ (pending' = RemoveAt(pending, i) =>
                    /\ result' = result
                    /\ isAnalyzing' = FALSE
                    /\ lastSettled'.status = "error")]_vars

\* an ill-composed request has been rejected by the endpoint
C3_Witness ==
    /\ lastSettled.status = "error"
    /\ ~lastSettled.composed
    /\ lastSettled.error.name = "ApiError"
    /\ lastSettled.error.message = "InvalidTradeComposition"
    /\ ~isAnalyzing

\* C4 as stated: the proposal is two disjoint player sets, in every state of
\* the store.
C4_SendReceiveDisjoint ==
    SendIds \cap ReceiveIds = {}

\* result once exchange x has settled with the endpoint's answer
ResultAfter(current, x) ==
    IF ApiPost(x.response).kind = "resolve" THEN ApiPost(x.response).data ELSE current

\* C5 as stated: with two requests in flight, the stored result (isAnalyzing
\* is false either way) is the same whichever of the two completes first.
C5_CompletionOrderIrrelevant ==
    \A i, j \in 1..Len(pending) :
        i # j => ResultAfter(ResultAfter(result, pending[i]), pending[j])
                 = ResultAfter(ResultAfter(result, pending[j]), pending[i])

(***************************************************************************)
(* Properties of the core's computations.                                  *)
(***************************************************************************)
Returned(op) == returned.op = op
Succeeded(op) == returned.op = op /\ ~Failed(returned.value)

\* C7: analyzeTrade reports, per team, before = the total of its roster,
\* after = the total of the roster minus the players it gives plus the players
\* it gets, and diff = after - before.  Between teams that share no player a
\* team's diff is what it gets minus what it gives, and the other team's diff
\* is the opposite; X (5.0) for Y (3.0) is -2.0 for X's team, +2.0 for Y's.
C7_TradeImpact ==
    Succeeded("analyzeTrade") =>
        LET z == call.statLines
            a == returned.value.team_a
            b == returned.value.team_b
            given == SumOver(call.playersToB, z)
            got   == SumOver(call.playersToA, z)
        IN  /\ a.before = SumOver(call.teamA, z)
            /\ b.before = SumOver(call.teamB, z)
            /\ a.after = SumOver((call.teamA \ call.playersToB) \cup call.playersToA, z)
            /\ b.after = SumOver((call.teamB \ call.playersToA) \cup call.playersToB, z)
            /\ a.diff = a.after - a.before /\ b.diff = b.after - b.before
            /\ (call.teamA \cap call.teamB = {}) =>
                   a.diff = got - given /\ b.diff = given - got
            /\ (/\ call.playersToB = {1} /\ call.playersToA = {2}
                /\ 1 \in call.teamA /\ 2 \in call.teamB
                /\ call.teamA \cap call.teamB = {}
                /\ z[1] = 50 /\ z[2] = 30) => a.diff = -20 /\ b.diff = 20

\* Player X (5.0) went from team A to team B for Player Y (3.0)
C7_Witness ==
    /\ Succeeded("analyzeTrade")
    /\ call.teamA = {1} /\ call.teamB = {2}
    /\ call.playersToB = {1} /\ call.playersToA = {2}
    /\ call.statLines[1] = 50 /\ call.statLines[2] = 30
    /\ returned.value.team_a.diff = -20 /\ returned.value.team_b.diff = 20

ValuesOf(population) == [i \in 1..Len(population) |-> population[i].PTS]
WellFormed(population) ==
    population # <<>> /\ \A i \in 1..Len(population) : HasCategory(population[i])
ZeroVariance(population) ==
    \A i, j \in 1..Len(population) : population[i].PTS = population[j].PTS

\* C9: on a population whose category has zero variance (a single player
\* included) normalize returns, without failing, a Z-score of 0 for every
\* player.
C9_ZeroVarianceGivesZero ==
    (/\ returned.op = "normalize"
     /\ WellFormed(call.population)
     /\ ZeroVariance(call.population)) =>
        /\ ~Failed(returned.value)
        /\ Len(returned.value.zscores) = Len(call.population)
        /\ \A i \in 1..Len(call.population) :
              /\ returned.value.zscores[i].num = 0
              /\ returned.value.zscores[i].den2 > 0

\* a single-player population was normalized
C9_Witness ==
    /\ Succeeded("normalize")
    /\ Len(call.population) = 1
    /\ returned.value.zscores = <<ZeroZ>>

\* C10: on a population of at least two players with nonzero variance the
\* Z-scores have mean 0 and population standard deviation 1.  With
\* Z = num / sqrt(den2): the nums sum to 0, and the squares of the nums sum to
\* n * den2 (so the mean of Z^2, which is the variance as the mean is 0, is 1).
C10_MeanZeroDeviationOne ==
    (/\ returned.op = "normalize"
     /\ WellFormed(call.population)
     /\ Len(call.population) >= 2
     /\ ~ZeroVariance(call.population)) =>
        /\ ~Failed(returned.value)
        /\ LET zs == returned.value.zscores
               n  == Len(call.population)
               nums == [i \in 1..n |-> zs[i].num]
           IN  /\ Len(zs) = n
               /\ \A i \in 1..n : zs[i].den2 = zs[1].den2 /\ zs[i].den2 > 0
               /\ SeqSum(nums) = 0
               /\ SeqSum(Squares(nums)) = n * zs[1].den2

\* PTS 20, 25, 30 were normalized: mean 25, Z = -15, 0, 15 over sqrt(150)
C10_Witness ==
    /\ Succeeded("normalize")
    /\ ValuesOf(call.population) = <<20, 25, 30>>
    /\ returned.value.zscores =
           <<[num |-> -15, den2 |-> 150], [num |-> 0, den2 |-> 150], [num |-> 15, den2 |-> 150]>>

\* two stat lines with the same percentage: makes / attempts agree
SamePercentage(a, b) == a.FGM * b.FGA = b.FGM * a.FGA

\* the percentage of a stat line is the league average percentage of the population
AtLeagueAverage(line, population) ==
    line.FGM * SeqSum(Attempts(population)) = line.FGA * SeqSum(Makes(population))

\* C11: a percentage category is normalised on the volume-weighted impact
\* value, not on the raw percentage: in every population normalised for FG%,
\* two players with the same percentage and different attempt counts get
\* different Z-scores whenever that percentage is not the league average.
C11_VolumeWeighted ==
    Succeeded("normalizePercentage") =>
        \A i, j \in 1..Len(call.population) :
            (/\ SamePercentage(call.population[i], call.population[j])
             /\ call.population[i].FGA # call.population[j].FGA
             /\ ~AtLeagueAverage(call.population[i], call.population)) =>
                returned.value.zscores[i] # returned.value.zscores[j]

\* 1 of 2 and 2 of 4 next to 3 of 4: the same 50% on different volumes, the
\* league average being 60%
C11_Witness ==
    /\ Succeeded("normalizePercentage")
    /\ call.population = <<[FGM |-> 1, FGA |-> 2], [FGM |-> 2, FGA |-> 4], [FGM |-> 3, FGA |-> 4]>>
    /\ returned.value.zscores[1] # returned.value.zscores[2]

(***************************************************************************)
(* Properties of the analysis requests in flight.                          *)
(***************************************************************************)
\* C18: isAnalyzing tracks the request: whenever an analysis request is in
\* flight isAnalyzing is true, and at most one request is in flight.
C18_AnalyzingWhileInFlight ==
    /\ pending # <<>> => isAnalyzing
    /\ Len(pending) <= 1

\* C19: the response to a request issued before the most recent clearTrade
\* or swapTeams never becomes the stored result: when such a request
\* succeeds, result stays as it is (null, until a later analysis succeeds).
C19_StaleResponseDropped ==
    [][\A i \in 1..issuedBefore : RequestSucceeds(i) => result' = result]_vars

\* the i-th request in flight is the one that settles in this step
Settles(i) == i \in 1..Len(pending) /\ pending' = RemoveAt(pending, i)

\* C20 (at the moment a request settles): isAnalyzing is false; when it
\* settled with success, result is the TradeResult the server returned for
\* it; when it settled with an error, result is what it was.
C20_SettlingStep ==
    [][(\E i \in 1..Len(pending) : Settles(i)) =>
          /\ ~isAnalyzing'
          /\ lastSettled'.status = "success" =>
                \E i \in 1..Len(pending) :
                    Settles(i) /\ pending[i].response.ok /\ result' = pending[i].response.body
          /\ lastSettled'.status = "error" => result' = result]_vars

Issued == Len(pending') = Len(pending) + 1

\* the request whose rosters are the ids of teamAPlayers and teamBPlayers and
\* whose players_to_b and players_to_a are the ids of playersToSend and
\* playersToReceive, all in the order of the store
RequestOfStore ==
    [team_a_roster |-> [i \in 1..Len(teamAPlayers) |-> teamAPlayers[i].id],
     team_b_roster |-> [i \in 1..Len(teamBPlayers) |-> teamBPlayers[i].id],
     players_to_b  |-> [i \in 1..Len(playersToSend) |-> playersToSend[i].id],
     players_to_a  |-> [i \in 1..Len(playersToReceive) |-> playersToReceive[i].id]]

\* C21: an analysis request is issued only when playersToSend is non-empty,
\* playersToReceive is non-empty and isAnalyzing is false, and the request
\* that goes in flight is the one built from the store at the click: rosters
\* the ids of teamAPlayers and teamBPlayers, players_to_b and players_to_a the
\* ids of playersToSend and playersToReceive.  Nothing but the click issues a
\* request.
C21_RequestFromStoreAtClick ==
    [][Issued =>
          /\ playersToSend # <<>> /\ playersToReceive # <<>> /\ ~isAnalyzing
          /\ pending' = Append(pending, Exchange(RequestOfStore))
          /\ HandleAnalyze]_vars

\* the first request of the page is in flight, built from two chosen teams
\* and a selection on either side; nothing has touched the store since
C21_Witness ==
    /\ lastSettled = Idle /\ issuedBefore = 0
    /\ teamAPlayers # <<>> /\ teamBPlayers # <<>> /\ teamAId # teamBId
    /\ playersToSend # <<>> /\ playersToReceive # <<>>
    /\ isAnalyzing
    /\ pending = <<Exchange(RequestOfStore)>>

(***************************************************************************)
(* Properties of the UI store, of its persistence and of the palette.      *)
(***************************************************************************)
\* the store as useTradeStore creates it
TradeStoreInitial ==
    /\ teamAId = NoTeam /\ teamAPlayers = <<>> /\ playersToSend = <<>>
    /\ teamBId = NoTeam /\ teamBPlayers = <<>> /\ playersToReceive = <<>>
    /\ result = NullResult /\ isAnalyzing = FALSE

\* C12 (what is stored): the localStorage item, when there is one, holds
\* theme, sidebarCollapsed and activeLeagueId and nothing else: neither
\* commandPaletteOpen nor any field of the trade store.
C12_OnlyPreferencesStored ==
    storage # NoItem => DOMAIN storage.state = {"theme", "sidebarCollapsed", "activeLeagueId"}

\* C12 (what a reload restores): after a page reload the trade proposal is
\* empty, result is null, isAnalyzing is false and the command palette is
\* closed, and what was stored is left as it was.
C12_ReloadRestoresNothingTransient ==
    [][Reload => (TradeStoreInitial' /\ ~commandPaletteOpen' /\ storage' = storage)]_vars

\* C12: only the three preferences are ever persisted, so a reload starts
\* from an empty trade proposal and a closed palette.
C12_ProposalTransient ==
    /\ [](C12_OnlyPreferencesStored)
    /\ C12_ReloadRestoresNothingTransient

\* a state a reload would wipe: a proposal under analysis with the palette
\* open, the preferences stored
C12_Witness ==
    /\ commandPaletteOpen /\ isAnalyzing /\ result # NullResult
    /\ playersToSend # <<>> /\ playersToReceive # <<>> /\ teamAId # NoTeam
    /\ storage # NoItem /\ storage.state.theme = "light"

\* C17: every press of K with Meta or Ctrl flips commandPaletteOpen, closed
\* to open and open to closed, whatever opened or closed the palette before
\* (the header button, a backdrop click, a command selection, a reload).
C17_KeyPressToggles ==
    [][KeyDownK => commandPaletteOpen' = ~commandPaletteOpen]_vars

\* the key was pressed on an open palette and closed it
C17_Witness ==
    /\ lastKey = KeyPress(TRUE, FALSE)
    /\ ~commandPaletteOpen /\ ~listenerOpen

(***************************************************************************)
(* Properties of the library functions.                                    *)
(***************************************************************************)
\* the message an ApiError of a non-ok response is to carry; an empty
\* detail is read as no detail
ClaimedMessage(response) ==
    IF response.json /\ "detail" \in DOMAIN response.body /\ response.body.detail # ""
    THEN response.body.detail
    ELSE "Request failed"

\* C13: a call of api.get, api.post, api.put or api.delete that received a
\* non-ok response has rejected with an ApiError carrying the response's
\* status and, as message, the body's detail when the body is JSON with a
\* detail and "Request failed" otherwise; a call that received an ok response
\* has resolved with the parsed JSON body.
C13_ClientContract ==
    (returned.op \in ApiMethods /\ ~IsNetworkFailure(call.outcome)) =>
        IF ~call.outcome.ok
        THEN /\ returned.value.kind = "reject"
             /\ returned.value.error.name = "ApiError"
             /\ returned.value.error.status = call.outcome.status
             /\ returned.value.error.message = ClaimedMessage(call.outcome)
        ELSE /\ returned.value.kind = "resolve"
             /\ returned.value.data = call.outcome.body

\* the suffix English gives the ordinal of n >= 1
OrdinalSuffix(n) ==
    IF n % 10 = 1 /\ n % 100 # 11 THEN "st"
    ELSE IF n % 10 = 2 /\ n % 100 # 12 THEN "nd"
    ELSE IF n % 10 = 3 /\ n % 100 # 13 THEN "rd"
    ELSE "th"

\* C14: for every integer n >= 1, formatOrdinal(n) is n followed by "st" when
\* n mod 10 = 1 and n mod 100 is not 11, by "nd" when n mod 10 = 2 and
\* n mod 100 is not 12, by "rd" when n mod 10 = 3 and n mod 100 is not 13,
\* and by "th" in every other case.
C14_OrdinalSuffix ==
    Returned("formatOrdinal") =>
        returned.value = [number |-> call.n, suffix |-> OrdinalSuffix(call.n)]

\* 113th: a teen beyond one hundred
C14_Witness ==
    Returned("formatOrdinal") /\ call.n = 113 /\ returned.value.suffix = "th"

\* C15: formatZScore puts "+" before a positive value, "-" before a negative
\* one and nothing before zero, and the rest of its output is the absolute
\* value rounded to the requested number of decimals, 1 when none is
\* requested: no number with that many decimals is nearer to it.
C15_SignedRounded ==
    Returned("formatZScore") =>
        LET d == IF call.decimals = <<>> THEN 1 ELSE call.decimals[1]
        IN  /\ (returned.value.sign = "+") <=> (call.value.num > 0)
            /\ (returned.value.sign = "-") <=> (call.value.num < 0)
            /\ (returned.value.sign = "") <=> (call.value.num = 0)
            /\ returned.value.decimals = d
            /\ 2 * Abs(returned.value.digits * call.value.den
                       - Abs(call.value.num) * PowerOfTen(d)) <= call.value.den

\* -0.625 with the default decimals: "-0.6"
C15_Witness ==
    /\ Returned("formatZScore")
    /\ call.value = [num |-> -5, den |-> 8] /\ call.decimals = <<>>
    /\ returned.value = [sign |-> "-", digits |-> 6, decimals |-> 1]

\* full_name contains query, case ignored
Matches(player, query) ==
    \E k \in 0..(Len(player.full_name) - Len(query)) :
        \A i \in 1..Len(query) :
            ToLowerCase(<<player.full_name[k + i]>>) = ToLowerCase(<<query[i]>>)

\* the places of the fetched array whose player matches the query
MatchingPlaces == {i \in 1..Len(call.players) : Matches(call.players[i], call.query)}

\* the j-th matching place, in the server's order
NthMatch(j) == CHOOSE i \in MatchingPlaces : Cardinality({m \in MatchingPlaces : m < i}) = j - 1

\* C16: searchPlayers(query, limit) resolves with at most limit players (10
\* when no limit is given), each of whose full_name contains query with case
\* ignored, in the order the server returned them, and they are the first
\* matches of the fetched array: none is skipped and no other player appears.
C16_FirstMatches ==
    Returned("searchPlayers") =>
        LET cap == IF call.limit = <<>> THEN 10 ELSE call.limit[1]
            n == Len(returned.value)
        IN  /\ n <= cap
            /\ n = IF Cardinality(MatchingPlaces) < cap THEN Cardinality(MatchingPlaces) ELSE cap
            /\ \A j \in 1..n : returned.value[j] = call.players[NthMatch(j)]

\* no limit given, eleven of fourteen players match "AL": the fourth player,
\* who does not match, is passed over and the eleventh match is cut off
C16_Witness ==
    /\ Returned("searchPlayers")
    /\ call.limit = <<>> /\ call.query = <<"A", "L">>
    /\ Cardinality(MatchingPlaces) = 11 /\ ~Matches(call.players[4], call.query)
    /\ Len(returned.value) = 10 /\ returned.value[4] = call.players[5]

====
